---- MODULE Spec2Model ----
(***************************************************************************)
(* A model of blogmaker's GitHub-backed file store (src/app.py):           *)
(*   - github_api_request_with_retry, the retrying API client;             *)
(*   - manage_file, the POST/DELETE /api/file handler with its pre-flight  *)
(*     checks (check_github_api_status, test_github_repo_access);          *)
(*   - the part of the editor script that keeps the sha of the open file.  *)
(* Five specifications are given over the same variables:                    *)
(*   ClientSpec  one call of github_api_request_with_retry, driven by      *)
(*               every sequence of responses and transport failures;      *)
(*   Spec        two browser tabs calling manage_file concurrently for     *)
(*               one path of one repository;                               *)
(*   TabSpec     one tab calling manage_file and the two probe routes      *)
(*               while another session posts the settings form; the tab    *)
(*               also lists the repository and reads the file;            *)
(*   ListSpec    list_files applied to every top-level directory listing   *)
(*               of a few entries;                                         *)
(*   AuthSpec    the login form and the settings form, posted by two       *)
(*               sessions with every combination of their fields.         *)
(***************************************************************************)
EXTENDS Integers, Sequences, FiniteSets, TLC

VARIABLES
    x,             \* ClientSpec: the one call of github_api_request_with_retry
    dir,           \* GitHub: the other entries of the repository's top directory
    posted,        \* posted[c]: the login form and the settings form tab c posted last
    config,        \* config.json: the keys the store reads
    session,       \* session[c]: 'is_admin' in the Flask session of tab c
    remote,        \* GitHub: the sha of the file (0: no file) and the last sha issued
    pc,            \* pc[c]: where tab c's /api/file request stands
    request,       \* request[c]: request.method and the JSON body's sha (0: none)
    details,       \* details[c]: manage_file's local `details` (line 977)
    headers,       \* headers[c]: manage_file's local `headers` (line 978)
    api_status,    \* api_status[c]: manage_file's local `api_status` (line 999)
    repo_access,   \* repo_access[c]: manage_file's local `repo_access` (line 1024)
    call,          \* call[c]: the state of the handler's github_api_request_with_retry
    response,      \* response[c]: what manage_file returned (HTTP status, 'error')
    netlog,        \* netlog[c]: the requests sent to GitHub during this call, in order
    applied,       \* applied[c]: how often GitHub applied this call's PUT/DELETE
    racing,        \* both tabs have a POST in flight that carried the same valid sha
    fileStatuses,  \* fileStatuses[c]: editor script, fileStatuses[path].sha (0: no entry)
    obs            \* obs[c]: what this call's probes met, the printed warning, and
                   \* the repository and token each request of netlog[c] went to

clientVars == <<x>>
storeVars == <<dir, posted, config, session, remote, pc, request, details, headers, api_status,
               repo_access, call, response, netlog, applied, racing, fileStatuses,
               obs>>
vars == <<x, dir, posted, config, session, remote, pc, request, details, headers, api_status,
          repo_access, call, response, netlog, applied, racing, fileStatuses, obs>>

----------------------------------------------------------------------------
(* Bounds of the model *)

\* the largest max_retries a ClientSpec call is given
MaxBudget == 3
\* the number of shas GitHub issues in one run
MaxSha == 2
\* the number of other entries in a directory listing of ListSpec
MaxEntries == 3

(* Program constants *)

\* max_retries=3 (src/app.py:150)
DefaultMaxRetries == 3
\* backoff_factor=2 (src/app.py:150)
DefaultBackoffFactor == 2
\* max(reset_time - current_time, 60) (src/app.py:171)
MinWait == 60
\* if remaining < 10 (src/app.py:1012)
MinRemaining == 10
\* if percentage_used > 90 (src/app.py:1020)
WarnPercentage == 90

Absent == 0 - 1            \* a key the Python dict does not hold
NoHeader == <<>>           \* a response header that is not present
Max(a, b) == IF a >= b THEN a ELSE b

RECURSIVE Pow(_, _)
\* Python's integer b ** e, e >= 0
Pow(b, e) == IF e = 0 THEN 1 ELSE b * Pow(b, e - 1)

----------------------------------------------------------------------------
(* github_api_request_with_retry (src/app.py:150-246) *)

\* str.upper() on the method names the model uses
Upper(method) ==
    CASE method = "get" -> "GET"
      [] method = "put" -> "PUT"
      [] method = "delete" -> "DELETE"
      [] OTHER -> method

\* the if/elif chain of lines 156-163: the methods that issue a request
SupportedMethod(method) == Upper(method) \in {"GET", "PUT", "DELETE"}

\* response.headers.get(name, default)
HeaderGet(h, default) == IF h = NoHeader THEN default ELSE h[1]

IsRateLimited_AnyForbidden(ev) == ev.status = 403
\* lines 166-168: status 403 and X-RateLimit-Remaining (default '0') equal to '0'
IsRateLimited(ev) ==
    /\ ev.status = 403
    /\ HeaderGet(ev.remaining, "0") = "0"

WaitTime_NoFloor(reset, now) == HeaderGet(reset, 0) - now
\* lines 169-171: X-RateLimit-Reset defaults to '0'; at least one minute
WaitTime(reset, now) == Max(HeaderGet(reset, 0) - now, MinWait)

SuccessStatuses_Only200 == {200}
\* line 193: the statuses returned as a success
SuccessStatuses == {200, 201}

RetryStatuses_No504 == {500, 502, 503}
RetryStatuses_With404 == {404, 500, 502, 503, 504}
\* line 186: the statuses retried with backoff
RetryStatuses == {500, 502, 503, 504}

Backoff_Linear(backoff_factor, attempt) == backoff_factor * attempt
Backoff_FromOne(backoff_factor, attempt) == Pow(backoff_factor, attempt + 1)
\* lines 187, 211, 224: backoff_factor ** attempt
Backoff(backoff_factor, attempt) == Pow(backoff_factor, attempt)

AttemptsRemain_OffByOne(attempt, max_retries) == attempt < max_retries
\* lines 173, 186, 210, 223: attempt < max_retries - 1
AttemptsRemain(attempt, max_retries) == attempt < max_retries - 1

NoResult == [success |-> FALSE, error |-> "", status_code |-> Absent,
             retry_after |-> Absent, sha |-> Absent]
Success_StatusOk(status, sha) == [success |-> TRUE, error |-> "", status_code |-> 200,
                                  retry_after |-> Absent, sha |-> sha]
\* lines 194-198: 'data' is response.json(), of which the model keeps the sha
Success(status, sha) == [success |-> TRUE, error |-> "", status_code |-> status,
                         retry_after |-> Absent, sha |-> sha]
Failure(error, status, retry_after) ==
    [success |-> FALSE, error |-> error, status_code |-> status,
     retry_after |-> retry_after, sha |-> Absent]

\* What the try block of one loop iteration met: a response, or an exception
\* raised by requests ("timeout", "connection_error") or by anything else
\* ("exception").  `sha` is the blob sha of a 200/201 body; a 200/201 response
\* carries a JSON body, as GitHub's do, so response.json() (line 196) returns;
\* so does the body of any other response that announces JSON (line 200).
Response(status, remaining, reset, sha) ==
    [kind |-> "response", status |-> status, remaining |-> remaining,
     reset |-> reset, sha |-> sha]
Raised(kind) ==
    [kind |-> kind, status |-> 0, remaining |-> NoHeader, reset |-> NoHeader,
     sha |-> Absent]

\* One iteration of the for loop (lines 154-240) at index `attempt`, given what
\* the request met and what time.time() reads.  Returns whether the function
\* returns (and what), and the time.sleep() made before the next iteration
\* (Absent: none).
Iteration(max_retries, backoff_factor, attempt, ev, now) ==
    LET return(r) == [returns |-> TRUE, result |-> r, sleep |-> Absent]
        continue(s) == [returns |-> FALSE, result |-> NoResult, sleep |-> s]
    IN  CASE ev.kind = "timeout" ->
               IF AttemptsRemain(attempt, max_retries)
               THEN continue(Backoff(backoff_factor, attempt))
               ELSE return(Failure("timeout", Absent, Absent))
          [] ev.kind = "connection_error" ->
               IF AttemptsRemain(attempt, max_retries)
               THEN continue(Backoff(backoff_factor, attempt))
               ELSE return(Failure("connection_error", Absent, Absent))
          [] ev.kind = "exception" ->
               return(Failure("unexpected_error", Absent, Absent))
          [] OTHER ->
               IF IsRateLimited(ev)
               THEN IF AttemptsRemain(attempt, max_retries)
                    THEN continue(WaitTime(ev.reset, now))
                    ELSE return(Failure("rate_limit_exceeded", Absent,
                                        WaitTime(ev.reset, now)))
               ELSE IF ev.status \in RetryStatuses
                       /\ AttemptsRemain(attempt, max_retries)
               THEN continue(Backoff(backoff_factor, attempt))
               ELSE IF ev.status \in SuccessStatuses
               THEN return(Success(ev.status, ev.sha))
               ELSE return(Failure("api_error", ev.status, Absent))

\* The state of one call: the loop index, the requests sent so far, and the
\* result once it has returned.
Idle == [running |-> FALSE, returned |-> FALSE, method |-> "", max_retries |-> 0,
         backoff_factor |-> 0, attempt |-> 0, nreq |-> 0, result |-> NoResult]

InRange_OffByOne(i, max_retries) == i <= max_retries
\* line 154: the index i is one of range(max_retries)
InRange(i, max_retries) == i < max_retries

Exhausted_AsTimeout(k) ==
    [k EXCEPT !.running = FALSE, !.returned = TRUE,
              !.result = Failure("timeout", Absent, Absent)]
\* lines 242-246: the loop ended without a return
Exhausted(k) ==
    [k EXCEPT !.running = FALSE, !.returned = TRUE,
              !.result = Failure("max_retries_exceeded", Absent, Absent)]

\* Entering the function with the loop at its first index.
Begin(method, max_retries, backoff_factor) ==
    LET k == [Idle EXCEPT !.running = TRUE, !.method = method,
                          !.max_retries = max_retries,
                          !.backoff_factor = backoff_factor]
    IN  IF InRange(0, max_retries) THEN k ELSE Exhausted(k)

MethodRejected_Exhausted(k) == Exhausted(k)
\* An unsupported method raises ValueError before any request is sent (line 163).
MethodRejected(k) ==
    [k EXCEPT !.running = FALSE, !.returned = TRUE,
              !.result = Failure("unexpected_error", Absent, Absent)]

\* The call after one iteration that sent a request and met `ev`: the function
\* has returned, or it has slept and the loop moves to its next index.
AfterIteration(k, ev, now) ==
    LET it == Iteration(k.max_retries, k.backoff_factor, k.attempt, ev, now)
        sent == [k EXCEPT !.nreq = k.nreq + 1]
    IN  IF it.returns
        THEN [sent EXCEPT !.running = FALSE, !.returned = TRUE, !.result = it.result]
        ELSE IF InRange(k.attempt + 1, k.max_retries)
        THEN [sent EXCEPT !.attempt = k.attempt + 1]
        ELSE Exhausted(sent)

----------------------------------------------------------------------------
(* ClientSpec: one call, every parameter and every sequence of events *)

Methods == {"GET", "put", "DELETE", "PATCH"}
Budgets == 0..MaxBudget
Factors == {2, 3}
Statuses == {200, 201, 401, 403, 404, 409, 422, 500, 502, 503, 504}
RemainingHeaders == {NoHeader, <<"0">>, <<"5">>}
ResetHeaders == {NoHeader, <<1030>>, <<1150>>}
Nows == {1000, 1100}

\* the sha in the JSON body of a 200/201 response
BodyShas == {1, 2}

ClientEvents ==
    {Raised(kind) : kind \in {"timeout", "connection_error", "exception"}}
    \cup {Response(s, NoHeader, NoHeader, Absent) : s \in Statuses \ {200, 201, 403}}
    \cup {Response(s, NoHeader, NoHeader, sha) : s \in {200, 201}, sha \in BodyShas}
    \cup {Response(403, rem, rst, Absent) :
            rem \in RemainingHeaders, rst \in ResetHeaders}

\* the class of an event that made the loop continue
Class(ev) ==
    CASE ev.kind = "timeout" -> "timeout"
      [] ev.kind = "connection_error" -> "connection_error"
      [] ev.kind = "response" /\ ev.status = 403 -> "rate_limited"
      [] OTHER -> "server_error"

NoEvent == [kind |-> "", status |-> 0, remaining |-> NoHeader, reset |-> NoHeader,
            sha |-> Absent]

XIdle == [k |-> Idle, last |-> NoEvent, now |-> 0, retried |-> <<>>, sleeps |-> <<>>]

\* a caller invokes github_api_request_with_retry
Execute(method, max_retries, backoff_factor) ==
    /\ ~x.k.running /\ ~x.k.returned
    /\ x' = [XIdle EXCEPT !.k = Begin(method, max_retries, backoff_factor)]
    /\ UNCHANGED storeVars

\* an iteration whose method is not GET, PUT or DELETE
ExecuteUnsupported ==
    /\ x.k.running
    /\ ~SupportedMethod(x.k.method)
    /\ x' = [x EXCEPT !.k = MethodRejected(x.k)]
    /\ UNCHANGED storeVars

\* an iteration that sends the request and meets ev; time.time() reads now
ExecuteAttempt(ev, now) ==
    /\ x.k.running
    /\ SupportedMethod(x.k.method)
    /\ LET it == Iteration(x.k.max_retries, x.k.backoff_factor, x.k.attempt, ev, now)
       IN  x' = [k |-> AfterIteration(x.k, ev, now),
                 last |-> ev,
                 now |-> IF ev.kind = "response" /\ IsRateLimited(ev) THEN now ELSE 0,
                 retried |-> IF it.returns THEN x.retried
                             ELSE Append(x.retried, Class(ev)),
                 sleeps |-> IF it.returns THEN x.sleeps
                            ELSE Append(x.sleeps, it.sleep)]
    /\ UNCHANGED storeVars

ClientNext ==
    \/ \E m \in Methods, b \in Budgets, f \in Factors : Execute(m, b, f)
    \/ ExecuteUnsupported
    \/ \E ev \in ClientEvents, now \in Nows : ExecuteAttempt(ev, now)

----------------------------------------------------------------------------
(* Configuration (src/app.py:17-64, 248-255) *)

Callers == {1, 2}
Other(c) == CHOOSE o \in Callers : o # c

\* the configurations a run starts from: config.json as load_config reads it
Configs == [GITHUB_USERNAME : {"", "me"}, GITHUB_REPO : {"", "blog"},
            GITHUB_BRANCH : {"main"}, GITHUB_TOKEN : {"", "tok"},
            SECRET_KEY : {"k1"}, ADMIN_USERNAME : {"admin"},
            ADMIN_PASSWORD : {"admin"}, OPENAI_API_KEY : {""},
            GEMINI_API_KEY : {""}]

load_config_Regenerate(cfg) ==
    [cfg EXCEPT !.SECRET_KEY = IF @ = "k1" THEN "k2" ELSE "k1"]
\* load_config (lines 17-46) for a config.json that exists: what it returns and,
\* when the file had no SECRET_KEY ("": the key is missing), saves (line 44).
\* The module loads the configuration when it is imported (line 1266), so the
\* file of a running application holds the key.
load_config(cfg) ==
    IF cfg.SECRET_KEY = "" THEN [cfg EXCEPT !.SECRET_KEY = "k1"] ELSE cfg

get_repo_details_Cached(cfg) == [user |-> "me", repo |-> "blog", branch |-> "main"]
\* get_repo_details (lines 248-255)
get_repo_details(cfg) ==
    [user |-> cfg.GITHUB_USERNAME, repo |-> cfg.GITHUB_REPO,
     branch |-> cfg.GITHUB_BRANCH]

NoHeaders == [Authorization |-> <<>>, Accept |-> ""]
get_github_headers_NoCheck(cfg) ==
    [Authorization |-> <<"token", cfg.GITHUB_TOKEN>>,
     Accept |-> "application/vnd.github.v3+json"]
\* get_github_headers returns None without a token (lines 57-59)
get_github_headers(cfg) ==
    IF cfg.GITHUB_TOKEN = ""
    THEN NoHeaders
    ELSE [Authorization |-> <<"token", cfg.GITHUB_TOKEN>>,
          Accept |-> "application/vnd.github.v3+json"]

NoDetails == [user |-> "", repo |-> "", branch |-> ""]

\* the token a request carries in its Authorization header (line 61)
TokenOf(hdr) == IF hdr = NoHeaders THEN "" ELSE hdr.Authorization[2]

\* where a request goes: the repository of its URL (none for /rate_limit), the
\* branch of its payload (none for a probe), and its token
Target(user, repo, branch, hdr) ==
    [user |-> user, repo |-> repo, branch |-> branch, token |-> TokenOf(hdr)]

----------------------------------------------------------------------------
(* GitHub's contents API for the one path (spec.md sections 4.3, 5, 6) *)

\* the statuses GitHub rejects a stale sha with
StaleStatuses == {409, 422}

\* PUT /contents/{path} with body sha `sha` (0: none); `stale` is the status
\* GitHub picks for a mismatch.  The write is applied only if the supplied sha
\* is the file's current one (or none, for a file that does not exist).
RemotePut(r, sha, stale) ==
    IF r.sha = 0
    THEN IF sha = 0
         THEN [remote |-> [sha |-> r.last + 1, last |-> r.last + 1],
               status |-> 201, sha |-> r.last + 1, applied |-> TRUE]
         ELSE [remote |-> r, status |-> 404, sha |-> Absent, applied |-> FALSE]
    ELSE IF sha = r.sha
         THEN [remote |-> [sha |-> r.last + 1, last |-> r.last + 1],
               status |-> 200, sha |-> r.last + 1, applied |-> TRUE]
         ELSE IF sha = 0
         THEN [remote |-> r, status |-> 422, sha |-> Absent, applied |-> FALSE]
         ELSE [remote |-> r, status |-> stale, sha |-> Absent, applied |-> FALSE]

\* DELETE /contents/{path} with body sha `sha`
RemoteDelete(r, sha, stale) ==
    IF r.sha = 0
    THEN [remote |-> r, status |-> 404, sha |-> Absent, applied |-> FALSE]
    ELSE IF sha = r.sha
         THEN [remote |-> [r EXCEPT !.sha = 0], status |-> 200, sha |-> Absent,
               applied |-> TRUE]
         ELSE [remote |-> r, status |-> stale, sha |-> Absent, applied |-> FALSE]

RemoteProcess(r, method, sha, stale) ==
    IF method = "PUT" THEN RemotePut(r, sha, stale) ELSE RemoteDelete(r, sha, stale)

----------------------------------------------------------------------------
(* Pre-flight probes (src/app.py:66-148) *)

NotRun == [status |-> "", remaining |-> 0, limit |-> 0, write |-> FALSE]

\* dict.get(key, default) for a key that may be missing
DictGet(v, default) == IF v = <<>> THEN default ELSE v[1]

\* what GET /rate_limit can meet: a 200 body, another status, an exception
RateLimitBodies == {[remaining |-> 9, limit |-> 5000], [remaining |-> 10, limit |-> 5000]}
HealthEvents == {[kind |-> "ok", remaining |-> b.remaining, limit |-> b.limit] :
                     b \in RateLimitBodies}
                \cup {[kind |-> k, remaining |-> 0, limit |-> 0] :
                         k \in {"status", "exception"}}

\* TabSpec: more of what GET /rate_limit can meet.  A body whose core object
\* lacks 'remaining' and 'limit' reads as 0 and 0 (lines 79-80); a failure is
\* a status other than 200 (401, a 5xx, a 403 with X-RateLimit-Remaining 0)
\* or an exception raised by requests.get
TabRateLimitBodies ==
    {[remaining |-> 0, limit |-> 0]}
    \cup {[remaining |-> r, limit |-> 60] : r \in {5, 9, 10}}
    \cup {[remaining |-> r, limit |-> 5000] : r \in {5, 9, 10, 499, 500}}
TransientKinds == {"timeout", "connection_error", "server_error", "rate_limited"}
TabHealthEvents ==
    {[kind |-> "ok", remaining |-> b.remaining, limit |-> b.limit] :
        b \in TabRateLimitBodies}
    \cup {[kind |-> k, remaining |-> 0, limit |-> 0] :
             k \in {"status", "exception"} \cup TransientKinds}

\* check_github_api_status (lines 66-104) given what its GET met
check_github_api_status(hdr, ev) ==
    IF hdr = NoHeaders \/ ev.kind # "ok"
    THEN [NotRun EXCEPT !.status = "error"]
    ELSE [NotRun EXCEPT !.status = "ok", !.remaining = ev.remaining,
                        !.limit = ev.limit]

\* what GET /repos/{user}/{repo} can meet: 200 with permissions.push true,
\* false or missing, another status, an exception
AccessEvents == {[kind |-> "ok", push |-> p] : p \in {<<>>, <<TRUE>>, <<FALSE>>}}
                \cup {[kind |-> k, push |-> <<>>] :
                         k \in {"not_found", "forbidden", "status", "exception"}}

\* TabSpec: the failures of GET /repos/{user}/{repo} told apart as above
TabAccessEvents ==
    AccessEvents \cup {[kind |-> k, push |-> <<>>] : k \in TransientKinds}

\* test_github_repo_access sends its GET only with user, repo and token set
\* (lines 111-115)
RepoProbeSent(det, hdr) == det.user # "" /\ det.repo # "" /\ hdr # NoHeaders

test_github_repo_access_PushDefaultTrue(det, hdr, ev) ==
    IF ~RepoProbeSent(det, hdr) \/ ev.kind # "ok"
    THEN [NotRun EXCEPT !.status = "error"]
    ELSE [NotRun EXCEPT !.status = "ok", !.write = DictGet(ev.push, TRUE)]
\* test_github_repo_access (lines 106-148) given what its GET met;
\* 'write' is permissions.get('push', False) (line 131)
test_github_repo_access(det, hdr, ev) ==
    IF ~RepoProbeSent(det, hdr) \/ ev.kind # "ok"
    THEN [NotRun EXCEPT !.status = "error"]
    ELSE [NotRun EXCEPT !.status = "ok", !.write = DictGet(ev.push, FALSE)]

----------------------------------------------------------------------------
(* manage_file (src/app.py:968-1122) *)

NoRequest == [method |-> "", sha |-> 0]
\* the request.method values the model gives to GET /api/files and
\* GET /api/file/<path>
ReadMethods == {"GET files", "GET file"}
\* what a route returned: the HTTP status, the body's 'error', and of the
\* body of a success the 'sha' (a write), the list (list_files) or the
\* 'content' (get_file)
NoResponse == [code |-> 0, error |-> "", sha |-> Absent, files |-> <<>>,
               content |-> Absent]
Reply(code, error) == [code |-> code, error |-> error, sha |-> Absent,
                       files |-> <<>>, content |-> Absent]

\* lines 89, 1009, 1020: percentage_used > 90, where percentage_used is
\* (limit - remaining) / limit * 100 for limit > 0 and 0 otherwise
Warned(api) ==
    /\ api.limit > 0
    /\ (api.limit - api.remaining) * 100 > WarnPercentage * api.limit

RateLimitTooLow_Inclusive(api) == api.remaining <= MinRemaining
RateLimitTooLow_OrWarned(api) == api.remaining < MinRemaining \/ Warned(api)
RateLimitTooLow_Never(api) == FALSE
\* line 1012: fewer than 10 requests remaining
RateLimitTooLow(api) == api.remaining < MinRemaining

\* obs[c] before a probe was sent
NoProbe == [kind |-> "none"]
\* `payload` holds the sha of the body of each PUT or DELETE sent (0: the
\* body has no sha); `changed` says that the settings were saved with other
\* values since the call began; `prev` is the content this tab's last
\* successful GET /api/file/<path> returned, kept until the tab writes
NoObs == [api |-> NoProbe, repo |-> NoProbe, warned |-> FALSE, targets |-> <<>>,
          payload |-> <<>>, changed |-> FALSE, prev |-> Absent]

PayloadSha_Dropped(method, sha) == IF method = "POST" THEN 0 ELSE sha
\* lines 1048-1054, 1069-1073: the sha of the payload; a POST's payload gets
\* the key only for a sha that is set
PayloadSha(method, sha) == sha

HasWritePermission_Unchecked(access) == TRUE
\* lines 1033-1034: permissions.get('write', False)
HasWritePermission(access) == access.write

\* lines 1061-1062: a DELETE needs a sha
ShaMissing(method, sha) == method = "DELETE" /\ sha = 0

\* lines 1047, 1061: the method sent to GitHub
RemoteMethod(method) == IF method = "POST" THEN "PUT" ELSE "DELETE"

MapResult_AllServerError(result) ==
    IF result.success
    THEN [code |-> result.status_code, error |-> "", sha |-> result.sha,
          files |-> <<>>, content |-> Absent]
    ELSE Reply(500, result.error)
\* lines 1078-1114: the HTTP response for a result of the client
MapResult(result) ==
    IF result.success
    THEN [code |-> result.status_code, error |-> "", sha |-> result.sha,
          files |-> <<>>, content |-> Absent]
    ELSE CASE result.error = "rate_limit_exceeded" -> Reply(429, result.error)
           [] result.error = "timeout" -> Reply(504, result.error)
           [] result.error = "connection_error" -> Reply(503, result.error)
           [] result.error = "api_error" ->
                Reply(IF result.status_code = Absent THEN 500
                      ELSE result.status_code, result.error)
           [] OTHER -> Reply(500, result.error)

\* 'is_admin' in session: the test every route starts with (lines 864, 888,
\* 918, 930, 941, 953, 962, 970, 1127, 1147)
is_admin_Always(s, c) == TRUE
is_admin(s, c) == s[c]

InFlight(c) == pc[c] \in {"preflight_api", "preflight_repo", "request"}

\* tab c sends POST or DELETE /api/file; lines 969-993
Request(c, method, sha) ==
    /\ pc[c] = "idle"
    /\ LET det == get_repo_details(config)
           hdr == get_github_headers(config)
           reply == IF ~is_admin(session, c) THEN Reply(401, "Not authenticated")
                    ELSE IF det.user = "" \/ det.repo = ""
                    THEN Reply(400, "GitHub configuration incomplete")
                    ELSE IF hdr = NoHeaders
                    THEN Reply(400, "GitHub token missing")
                    ELSE NoResponse
       IN  /\ request' = [request EXCEPT ![c] = [method |-> method, sha |-> sha]]
           /\ details' = [details EXCEPT ![c] = IF is_admin(session, c) THEN det ELSE NoDetails]
           /\ headers' = [headers EXCEPT ![c] = IF is_admin(session, c) THEN hdr ELSE NoHeaders]
           /\ response' = [response EXCEPT ![c] = reply]
           /\ pc' = [pc EXCEPT ![c] = IF reply = NoResponse THEN "preflight_api"
                                      ELSE "returned"]
    /\ api_status' = [api_status EXCEPT ![c] = NotRun]
    /\ repo_access' = [repo_access EXCEPT ![c] = NotRun]
    /\ call' = [call EXCEPT ![c] = Idle]
    /\ netlog' = [netlog EXCEPT ![c] = <<>>]
    /\ applied' = [applied EXCEPT ![c] = 0]
    /\ obs' = [obs EXCEPT ![c] = NoObs]
    /\ racing' = /\ method = "POST" /\ sha # 0 /\ sha = remote.sha
                 /\ is_admin(session, c)
                 /\ InFlight(Other(c))
                 /\ request[Other(c)] = [method |-> "POST", sha |-> sha]
                 /\ applied[Other(c)] = 0
    /\ config' = IF is_admin(session, c) THEN load_config(config) ELSE config
    /\ UNCHANGED <<x, dir, posted, session, remote, fileStatuses>>

\* lines 998-1021: check_github_api_status and the checks of its result
PreflightApi(c, ev) ==
    /\ pc[c] = "preflight_api"
    /\ LET hdr == get_github_headers(config)
           api == check_github_api_status(hdr, ev)
           reply == IF api.status # "ok" THEN Reply(503, "GitHub API unavailable")
                    ELSE IF RateLimitTooLow(api)
                    THEN Reply(429, "Rate limit nearly exceeded")
                    ELSE NoResponse
       IN  /\ api_status' = [api_status EXCEPT ![c] = api]
           /\ netlog' = [netlog EXCEPT ![c] =
                            IF hdr = NoHeaders THEN @ ELSE Append(@, "GET /rate_limit")]
           /\ obs' = [obs EXCEPT
                         ![c].api = IF hdr = NoHeaders THEN NoProbe ELSE ev,
                         ![c].warned = reply = NoResponse /\ Warned(api),
                         ![c].targets = IF hdr = NoHeaders THEN @
                                        ELSE Append(@, Target("", "", "", hdr))]
           /\ response' = [response EXCEPT ![c] = reply]
           /\ pc' = [pc EXCEPT ![c] = IF reply = NoResponse THEN "preflight_repo"
                                      ELSE "returned"]
    /\ config' = load_config(config)
    /\ UNCHANGED <<x, dir, posted, session, remote, request, details, headers,
                   repo_access, call, applied, racing, fileStatuses>>

\* lines 1023-1076: test_github_repo_access, the checks of its result, and the
\* payload; the handler then enters github_api_request_with_retry
PreflightRepo(c, ev) ==
    /\ pc[c] = "preflight_repo"
    /\ LET det == get_repo_details(config)
           hdr == get_github_headers(config)
           access == test_github_repo_access(det, hdr, ev)
           reply == IF access.status # "ok" THEN Reply(403, "Repository access failed")
                    ELSE IF ~HasWritePermission(access)
                    THEN Reply(403, "Insufficient permissions")
                    ELSE IF ShaMissing(request[c].method, request[c].sha)
                    THEN Reply(400, "SHA required")
                    ELSE NoResponse
       IN  /\ repo_access' = [repo_access EXCEPT ![c] = access]
           /\ netlog' = [netlog EXCEPT ![c] =
                            IF RepoProbeSent(det, hdr) THEN Append(@, "GET /repos")
                            ELSE @]
           /\ obs' = [obs EXCEPT
                         ![c].repo = IF RepoProbeSent(det, hdr) THEN ev ELSE NoProbe,
                         ![c].targets = IF RepoProbeSent(det, hdr)
                                        THEN Append(@, Target(det.user, det.repo, "", hdr))
                                        ELSE @]
           /\ response' = [response EXCEPT ![c] = reply]
           /\ call' = [call EXCEPT ![c] =
                          IF reply = NoResponse
                          THEN Begin(RemoteMethod(request[c].method),
                                     DefaultMaxRetries, DefaultBackoffFactor)
                          ELSE @]
           /\ pc' = [pc EXCEPT ![c] = IF reply = NoResponse THEN "request"
                                      ELSE "returned"]
    /\ config' = load_config(config)
    /\ UNCHANGED <<x, dir, posted, session, remote, request, details, headers,
                   api_status, applied, racing, fileStatuses>>

\* what the network or GitHub can put in place of GitHub's answer
StoreFaults == {Raised("timeout"), Raised("connection_error"), Raised("exception"),
                Response(503, NoHeader, NoHeader, Absent),
                Response(403, <<"0">>, NoHeader, Absent)}
\* the faults that can also hide an answer GitHub gave: the request was processed
LossFaults == {Raised("timeout"), Raised("connection_error"),
               Response(503, NoHeader, NoHeader, Absent)}
StoreNow == 1000

\* One iteration of the handler's github_api_request_with_retry: the PUT or
\* DELETE is sent; GitHub processes it or not; the client sees GitHub's answer
\* or a fault.  When the client returns, lines 1078-1114 build the response.
Attempt(c, processed, fault, stale) ==
    /\ pc[c] = "request"
    /\ call[c].running
    /\ fault = NoEvent => processed
    /\ (processed /\ fault # NoEvent) => fault \in LossFaults
    /\ LET body == PayloadSha(request[c].method, request[c].sha)
           out == RemoteProcess(remote, call[c].method, body, stale)
           ev == IF fault = NoEvent
                 THEN Response(out.status, NoHeader, NoHeader, out.sha)
                 ELSE fault
           k == AfterIteration(call[c], ev, StoreNow)
       IN  /\ processed /\ out.applied => remote.last < MaxSha \/ call[c].method = "DELETE"
           /\ remote' = IF processed THEN out.remote ELSE remote
           /\ applied' = [applied EXCEPT ![c] =
                             IF processed /\ out.applied THEN @ + 1 ELSE @]
           /\ call' = [call EXCEPT ![c] = k]
           /\ netlog' = [netlog EXCEPT ![c] = Append(@, call[c].method)]
           /\ obs' = [obs EXCEPT
                         ![c].targets =
                             Append(@, Target(details[c].user, details[c].repo,
                                              details[c].branch, headers[c])),
                         ![c].payload = Append(@, body)]
           /\ response' = [response EXCEPT ![c] =
                              IF k.returned THEN MapResult(k.result) ELSE @]
           /\ pc' = [pc EXCEPT ![c] = IF k.returned THEN "returned" ELSE @]
    /\ UNCHANGED <<x, dir, posted, config, session, request, details, headers, api_status,
                   repo_access, racing, fileStatuses>>

----------------------------------------------------------------------------
(* The editor script and the login form *)

\* apiCall: response.ok (src/app.py:493-500)
ResponseOk(r) == r.code >= 200 /\ r.code < 300

\* the path the editor works on
PostName == <<"p", "o", "s", "t", ".", "m", "d">>

\* renderFileList (lines 656-661): the entry of the path is made from the
\* listing only when the script has none (0: no entry, or the path not listed)
renderFileList(status, listed) == IF status = 0 THEN listed ELSE status

\* the sha a list returned by GET /api/files gives for the path (0: not listed)
RECURSIVE PathSha(_)
PathSha(files) ==
    IF files = <<>> THEN 0
    ELSE IF files[1].path = PostName THEN files[1].sha
    ELSE PathSha(Tail(files))

\* saveFile after apiCall returned (lines 587-598): an existing file's entry
\* takes the sha of the response; a new file's entry is made by renderFileList
\* from the listing, `listed` (0: not listed or listing failed).  fetchFiles
\* after its apiCall returned (lines 502-509) calls renderFileList with the
\* list.  A failed call (lines 604-625, 649-650) and deleteFile change no entry.
AfterSave(status, req, resp, listed) ==
    IF req.method = "POST" /\ ResponseOk(resp)
    THEN IF req.sha # 0 THEN resp.sha
         ELSE renderFileList(status, listed)
    ELSE IF req.method = "GET files" /\ ResponseOk(resp)
    THEN renderFileList(status, PathSha(resp.files))
    ELSE status

\* the script's continuation once /api/file has answered
Complete(c, listed) ==
    /\ pc[c] = "returned"
    /\ listed \in {0, remote.sha}
    /\ fileStatuses' = [fileStatuses EXCEPT ![c] =
                           AfterSave(@, request[c], response[c], listed)]
    /\ pc' = [pc EXCEPT ![c] = "idle"]
    /\ racing' = FALSE
    \* the request is over: its locals are gone
    /\ request' = [request EXCEPT ![c] = NoRequest]
    /\ details' = [details EXCEPT ![c] = NoDetails]
    /\ headers' = [headers EXCEPT ![c] = NoHeaders]
    /\ api_status' = [api_status EXCEPT ![c] = NotRun]
    /\ repo_access' = [repo_access EXCEPT ![c] = NotRun]
    /\ call' = [call EXCEPT ![c] = Idle]
    /\ response' = [response EXCEPT ![c] = NoResponse]
    /\ netlog' = [netlog EXCEPT ![c] = <<>>]
    /\ applied' = [applied EXCEPT ![c] = 0]
    /\ obs' = [obs EXCEPT ![c] =
                  [NoObs EXCEPT !.prev =
                      IF request[c].method = "GET file" /\ response[c].code = 200
                      THEN response[c].content
                      ELSE IF request[c].method \in ReadMethods THEN obs[c].prev
                      ELSE Absent]]
    /\ UNCHANGED <<x, dir, posted, config, session, remote>>

\* the editor page is loaded: fileStatuses = {} (line 476), then fetchFiles
\* (line 848) and renderFileList make the entry from the listing
Reload(c, listed) ==
    /\ pc[c] = "idle"
    /\ is_admin(session, c)
    /\ listed \in {0, remote.sha}
    /\ fileStatuses' = [fileStatuses EXCEPT ![c] = listed]
    /\ config' = load_config(config)
    /\ UNCHANGED <<x, dir, posted, session, remote, pc, request, details, headers,
                   api_status, repo_access, call, response, netlog, applied, racing,
                   obs>>

\* what the login form posts
LoginForms == [username : {"admin", "root"}, password : {"admin", "pw2"}]
\* the form with the credentials of the default configuration
DefaultLogins == {[username |-> "admin", password |-> "admin"]}
NoLogin == [username |-> "", password |-> ""]

CredentialsMatch_UserOnly(cfg, form) == form.username = cfg.ADMIN_USERNAME
\* line 875: both fields equal the configured ones
CredentialsMatch(cfg, form) ==
    form.username = cfg.ADMIN_USERNAME /\ form.password = cfg.ADMIN_PASSWORD

\* login, POST (lines 868-883)
Login(c, form) ==
    /\ pc[c] = "idle"
    /\ session' = [session EXCEPT ![c] =
                      @ \/ CredentialsMatch(load_config(config), form)]
    /\ posted' = [posted EXCEPT ![c].login = form]
    /\ config' = load_config(config)
    /\ UNCHANGED <<x, dir, remote, pc, request, details, headers, api_status,
                   repo_access, call, response, netlog, applied, racing, fileStatuses,
                   obs>>

----------------------------------------------------------------------------
(* The settings form and the two probe routes *)

\* what the settings form posts in the runs about the store: a secret field
\* left empty keeps the stored secret
SettingsForms == [github_username : {"", "you"}, github_repo : {"blog"},
                  github_branch : {"main"}, github_token : {"", "tok2"},
                  openai_api_key : {""}, gemini_api_key : {""},
                  admin_username : {"admin"}, admin_password : {""}]
\* and in the runs about the two forms
AuthSettingsForms == [github_username : {"", "you"}, github_repo : {"blog"},
                      github_branch : {"main"}, github_token : {"", "tok2"},
                      openai_api_key : {"", "sk"}, gemini_api_key : {"", "gk"},
                      admin_username : {"admin", "root"},
                      admin_password : {"", "pw2"}]
NoSettings == [github_username |-> "", github_repo |-> "", github_branch |-> "",
               github_token |-> "", openai_api_key |-> "", gemini_api_key |-> "",
               admin_username |-> "", admin_password |-> ""]
NoPosted == [login |-> NoLogin, settings |-> NoSettings]

Secret_Overwritten(stored, field) == field
\* lines 895-896, 899-902, 905-906: a secret is replaced only by a field that
\* is not empty
Secret(stored, field) == IF field # "" THEN field ELSE stored

\* settings, POST (lines 885-911): load_config, the form's values, save_config
Settings(c, form) ==
    /\ is_admin(session, c)
    /\ config' = [load_config(config) EXCEPT
                     !.GITHUB_USERNAME = form.github_username,
                     !.GITHUB_REPO = form.github_repo,
                     !.GITHUB_BRANCH = form.github_branch,
                     !.GITHUB_TOKEN = Secret(@, form.github_token),
                     !.OPENAI_API_KEY = Secret(@, form.openai_api_key),
                     !.GEMINI_API_KEY = Secret(@, form.gemini_api_key),
                     !.ADMIN_USERNAME = form.admin_username,
                     !.ADMIN_PASSWORD = Secret(@, form.admin_password)]
    /\ posted' = [posted EXCEPT ![c].settings = form]
    /\ obs' = [t \in Callers |->
                  IF pc[t] # "idle" /\ config' # config
                  THEN [obs[t] EXCEPT !.changed = TRUE] ELSE obs[t]]
    /\ UNCHANGED <<x, dir, session, remote, pc, request, details, headers, api_status,
                   repo_access, call, response, netlog, applied, racing, fileStatuses>>

\* jsonify(...) of a probe's result: status 200
Json == [code |-> 200, error |-> "", sha |-> Absent, files |-> <<>>,
         content |-> Absent]

\* github_status, GET /api/github/status (lines 950-957)
GithubStatus(c, ev) ==
    /\ pc[c] = "idle"
    /\ LET hdr == get_github_headers(config)
           sent == is_admin(session, c) /\ hdr # NoHeaders
       IN  /\ api_status' = [api_status EXCEPT ![c] =
                                 IF is_admin(session, c) THEN check_github_api_status(hdr, ev)
                                 ELSE NotRun]
           /\ netlog' = [netlog EXCEPT ![c] =
                            IF sent THEN <<"GET /rate_limit">> ELSE <<>>]
           /\ obs' = [obs EXCEPT ![c] =
                         [NoObs EXCEPT !.api = IF sent THEN ev ELSE NoProbe,
                                       !.targets = IF sent THEN <<Target("", "", "", hdr)>>
                                                   ELSE <<>>]]
           /\ response' = [response EXCEPT ![c] =
                               IF is_admin(session, c) THEN Json
                               ELSE Reply(401, "Not authenticated")]
    /\ request' = [request EXCEPT ![c] = [method |-> "GET status", sha |-> 0]]
    /\ pc' = [pc EXCEPT ![c] = "returned"]
    /\ config' = IF is_admin(session, c) THEN load_config(config) ELSE config
    /\ UNCHANGED <<x, dir, posted, session, remote, details, headers, repo_access, call,
                   applied, racing, fileStatuses>>

\* github_repo_access, GET /api/github/repo-access (lines 959-966)
GithubRepoAccess(c, ev) ==
    /\ pc[c] = "idle"
    /\ LET det == get_repo_details(config)
           hdr == get_github_headers(config)
           sent == is_admin(session, c) /\ RepoProbeSent(det, hdr)
       IN  /\ repo_access' = [repo_access EXCEPT ![c] =
                                  IF is_admin(session, c) THEN test_github_repo_access(det, hdr, ev)
                                  ELSE NotRun]
           /\ netlog' = [netlog EXCEPT ![c] = IF sent THEN <<"GET /repos">> ELSE <<>>]
           /\ obs' = [obs EXCEPT ![c] =
                         [NoObs EXCEPT !.repo = IF sent THEN ev ELSE NoProbe,
                                       !.targets = IF sent
                                                   THEN <<Target(det.user, det.repo, "", hdr)>>
                                                   ELSE <<>>]]
           /\ response' = [response EXCEPT ![c] =
                               IF is_admin(session, c) THEN Json
                               ELSE Reply(401, "Not authenticated")]
    /\ request' = [request EXCEPT ![c] = [method |-> "GET repo-access", sha |-> 0]]
    /\ pc' = [pc EXCEPT ![c] = "returned"]
    /\ config' = IF is_admin(session, c) THEN load_config(config) ELSE config
    /\ UNCHANGED <<x, dir, posted, session, remote, details, headers, api_status, call,
                   applied, racing, fileStatuses>>

----------------------------------------------------------------------------
(* list_files and get_file (src/app.py:928-948) *)

\* A file name is a sequence of characters; ord() of the characters used
Ord(ch) ==
    CASE ch = "." -> 46 [] ch = "B" -> 66 [] ch = "D" -> 68 [] ch = "M" -> 77
      [] ch = "a" -> 97 [] ch = "b" -> 98 [] ch = "c" -> 99 [] ch = "d" -> 100
      [] ch = "e" -> 101 [] ch = "m" -> 109 [] ch = "n" -> 110 [] ch = "o" -> 111
      [] ch = "p" -> 112 [] ch = "s" -> 115 [] ch = "t" -> 116 [] ch = "x" -> 120

\* one entry of GitHub's answer to GET /repos/{user}/{repo}/contents: a top
\* directory entry's path is its name
Entry(name, type, sha) ==
    [name |-> name, path |-> name, sha |-> sha, type |-> type, size |-> Len(name)]

\* the other entries a repository may hold
Entries ==
    { Entry(<<"a", ".", "m", "d">>, "file", 11),
      Entry(<<"b", ".", "m", "d">>, "file", 12),
      Entry(<<"n", "o", "t", "e", "s", ".", "t", "x", "t">>, "file", 13),
      Entry(<<"B", ".", "m", "d">>, "file", 14),
      Entry(<<"a", "b", ".", "m", "d">>, "file", 15),
      Entry(<<"a", ".", "M", "D">>, "file", 16),
      Entry(<<"m", "d">>, "file", 17),
      Entry(<<"d", "o", "c", "s", ".", "m", "d">>, "dir", 18) }

\* the listings of at most MaxEntries entries, in any order, no name twice
Listings ==
    UNION { { l \in [1..n -> Entries] :
                \A i, j \in 1..n : i # j => l[i].name # l[j].name } :
            n \in 0..MaxEntries }

\* the directory of the runs that do not vary it
DefaultDir ==
    << Entry(<<"b", ".", "m", "d">>, "file", 12),
       Entry(<<"d", "o", "c", "s", ".", "m", "d">>, "dir", 18),
       Entry(<<"a", ".", "m", "d">>, "file", 11) >>

\* GitHub's 200 body for the directory: the other entries and, when it exists,
\* the file of the path
Listing(d, r) ==
    IF r.sha = 0 THEN d ELSE Append(d, Entry(PostName, "file", r.sha))

\* GitHub's 200 body for the file: the content of the version, base64-encoded
B64Encode(content) == <<"b64", content>>
FileBody(r) == [sha |-> r.sha, content |-> <<B64Encode(r.sha)>>]

\* the base64 text of the empty string, and the empty string
EmptyB64 == B64Encode(0)

B64Decode_Empty(text) == 0
\* line 947: base64.b64decode(...).decode('utf-8')
B64Decode(text) == text[2]

\* str.endswith (line 936)
EndsWith(name, suffix) ==
    /\ Len(name) >= Len(suffix)
    /\ SubSeq(name, Len(name) - Len(suffix) + 1, Len(name)) = suffix

\* a < b for two strings, as Python compares them: by the first character
\* that differs, a proper prefix first
RECURSIVE StrLess(_, _)
StrLess(a, b) ==
    IF a = <<>> THEN b # <<>>
    ELSE IF b = <<>> THEN FALSE
    ELSE IF a[1] = b[1] THEN StrLess(Tail(a), Tail(b))
    ELSE Ord(a[1]) < Ord(b[1])

\* f put into the sorted list s, behind the elements whose name is not greater
RECURSIVE Insert(_, _)
Insert(f, s) ==
    IF s = <<>> THEN <<f>>
    ELSE IF StrLess(f.name, s[1].name) THEN <<f>> \o s
    ELSE <<s[1]>> \o Insert(f, Tail(s))

sorted_AsListed(files) == files
\* line 937: sorted(files, key=lambda x: x['name']), a stable sort
RECURSIVE sorted(_)
sorted(files) ==
    IF files = <<>> THEN <<>>
    ELSE Insert(files[Len(files)], sorted(SubSeq(files, 1, Len(files) - 1)))

\* lines 936-937: the list list_files returns for a 200 body
MarkdownFiles(body) ==
    LET keep(i) == i.type = "file" /\ EndsWith(i.name, <<".", "m", "d">>)
        kept == SelectSeq(body, keep)
        files == [k \in 1..Len(kept) |->
                     [name |-> kept[k].name, path |-> kept[k].path,
                      sha |-> kept[k].sha]]
    IN  sorted(files)

\* what requests.get of list_files or get_file can meet: a 200 body, another
\* status, or an exception, which neither route catches
ReadEvents ==
    {[kind |-> "ok", status |-> 200]}
    \cup {[kind |-> "status", status |-> s] : s \in {401, 403, 404, 500}}
    \cup {[kind |-> k, status |-> 0] : k \in {"timeout", "connection_error"}}

\* the route's answer to what the GET met; `ok` is the body of a 200.  An
\* exception leaves the view function and Flask answers 500.
ReadReply(ev, ok, failed) ==
    CASE ev.kind = "ok" -> ok
      [] ev.kind = "status" -> Reply(ev.status, failed)
      [] OTHER -> Reply(500, "Internal Server Error")

\* a route that sends one GET to GitHub's contents API and returns.  GitHub
\* answers 200 only for a repository that is named.
Read(c, ev, method, sent, ok, failed) ==
    /\ pc[c] = "idle"
    /\ LET det == get_repo_details(config)
           hdr == get_github_headers(config)
       IN  /\ (is_admin(session, c) /\ ev.kind = "ok") => (det.user # "" /\ det.repo # "")
           /\ details' = [details EXCEPT ![c] = IF is_admin(session, c) THEN det ELSE NoDetails]
           /\ headers' = [headers EXCEPT ![c] = IF is_admin(session, c) THEN hdr ELSE NoHeaders]
           /\ netlog' = [netlog EXCEPT ![c] = IF is_admin(session, c) THEN <<sent>> ELSE <<>>]
           /\ obs' = [obs EXCEPT ![c] =
                         [NoObs EXCEPT
                             !.targets = IF is_admin(session, c)
                                         THEN <<Target(det.user, det.repo,
                                                       det.branch, hdr)>>
                                         ELSE <<>>,
                             !.prev = obs[c].prev]]
           /\ response' = [response EXCEPT ![c] =
                               IF is_admin(session, c) THEN ReadReply(ev, ok, failed)
                               ELSE Reply(401, "Not authenticated")]
    /\ request' = [request EXCEPT ![c] = [method |-> method, sha |-> 0]]
    /\ pc' = [pc EXCEPT ![c] = "returned"]
    /\ config' = IF is_admin(session, c) THEN load_config(config) ELSE config
    /\ UNCHANGED <<x, dir, posted, session, remote, api_status, repo_access, call,
                   applied, racing, fileStatuses>>

\* list_files, GET /api/files (lines 928-937)
ListFiles(c, ev) ==
    Read(c, ev, "GET files", "GET /contents",
         [Json EXCEPT !.files = MarkdownFiles(Listing(dir, remote))],
         "Failed to fetch repo contents")

\* get_file, GET /api/file/<path> (lines 939-948); GitHub answers 200 only
\* for a file that exists
GetFile(c, ev) ==
    /\ ev.kind = "ok" => remote.sha # 0
    /\ Read(c, ev, "GET file", "GET /contents/path",
            [Json EXCEPT !.content =
                B64Decode(DictGet(FileBody(remote).content, EmptyB64))],
            "Failed to fetch file content")

\* request.method values the model gives to GET /api/ai-styles and
\* POST /api/ai-rewrite
AiMethods == {"GET ai-styles", "POST ai-rewrite"}
Providers == {"openai", "gemini"}
AiEvents == {"ok", "error"}

\* the frame of the two AI routes: they talk to no GitHub endpoint and touch
\* neither the store nor the session
AiRoute(c, method, reply) ==
    /\ pc[c] = "idle"
    /\ request' = [request EXCEPT ![c] = [method |-> method, sha |-> 0]]
    /\ response' = [response EXCEPT ![c] = reply]
    /\ pc' = [pc EXCEPT ![c] = "returned"]
    /\ netlog' = [netlog EXCEPT ![c] = <<>>]
    /\ obs' = [obs EXCEPT ![c] = NoObs]
    /\ config' = IF is_admin(session, c) THEN load_config(config) ELSE config
    /\ UNCHANGED <<x, dir, posted, session, remote, details, headers, api_status,
                   repo_access, call, applied, racing, fileStatuses>>

\* get_ai_styles, GET /api/ai-styles (lines 1124-1142)
AiStyles(c) ==
    AiRoute(c, "GET ai-styles",
            IF is_admin(session, c) THEN Json
            ELSE Reply(401, "Not authenticated"))

\* ai_rewrite, POST /api/ai-rewrite (lines 1144-1183) with a complete body:
\* the provider's key is read from the configuration, a missing key is a
\* 400, and an exception of the provider's client is a 500
AiRewrite(c, provider, ev) ==
    LET cfg == load_config(config)
        api_key == IF provider = "openai" THEN cfg.OPENAI_API_KEY
                   ELSE cfg.GEMINI_API_KEY
    IN  AiRoute(c, "POST ai-rewrite",
                IF ~is_admin(session, c) THEN Reply(401, "Not authenticated")
                ELSE IF api_key = "" THEN Reply(400, "API key not configured")
                ELSE IF ev = "ok" THEN Json
                ELSE Reply(500, "AI rewrite failed"))

----------------------------------------------------------------------------
(* Specifications *)

StoreInit ==
    /\ config \in Configs
    /\ posted = [c \in Callers |-> NoPosted]
    /\ session = [c \in Callers |-> FALSE]
    /\ \E s \in {0, 1} : remote = [sha |-> s, last |-> s]
    /\ pc = [c \in Callers |-> "idle"]
    /\ request = [c \in Callers |-> NoRequest]
    /\ details = [c \in Callers |-> NoDetails]
    /\ headers = [c \in Callers |-> NoHeaders]
    /\ api_status = [c \in Callers |-> NotRun]
    /\ repo_access = [c \in Callers |-> NotRun]
    /\ call = [c \in Callers |-> Idle]
    /\ response = [c \in Callers |-> NoResponse]
    /\ netlog = [c \in Callers |-> <<>>]
    /\ applied = [c \in Callers |-> 0]
    /\ racing = FALSE
    /\ fileStatuses = [c \in Callers |-> 0]
    /\ obs = [c \in Callers |-> NoObs]

Init == x = XIdle /\ dir = DefaultDir /\ StoreInit

Next ==
    \/ \E c \in Callers, form \in DefaultLogins : Login(c, form)
    \/ \E c \in Callers, listed \in 0..MaxSha : Reload(c, listed)
    \/ \E c \in Callers, m \in {"POST", "DELETE"} :
          \E sha \in {0, fileStatuses[c]} : Request(c, m, sha)
    \/ \E c \in Callers, ev \in HealthEvents : PreflightApi(c, ev)
    \/ \E c \in Callers, ev \in AccessEvents : PreflightRepo(c, ev)
    \/ \E c \in Callers, processed \in BOOLEAN, fault \in StoreFaults \cup {NoEvent},
          stale \in StaleStatuses : Attempt(c, processed, fault, stale)
    \/ \E c \in Callers, listed \in 0..MaxSha : Complete(c, listed)

Spec == Init /\ [][Next]_vars

ClientInit ==
    /\ x = XIdle
    /\ dir = DefaultDir
    /\ posted = [c \in Callers |-> NoPosted]
    /\ config = [GITHUB_USERNAME |-> "me", GITHUB_REPO |-> "blog",
                 GITHUB_BRANCH |-> "main", GITHUB_TOKEN |-> "tok",
                 SECRET_KEY |-> "k1", ADMIN_USERNAME |-> "admin",
                 ADMIN_PASSWORD |-> "admin", OPENAI_API_KEY |-> "",
                 GEMINI_API_KEY |-> ""]
    /\ session = [c \in Callers |-> FALSE]
    /\ remote = [sha |-> 1, last |-> 1]
    /\ pc = [c \in Callers |-> "idle"]
    /\ request = [c \in Callers |-> NoRequest]
    /\ details = [c \in Callers |-> NoDetails]
    /\ headers = [c \in Callers |-> NoHeaders]
    /\ api_status = [c \in Callers |-> NotRun]
    /\ repo_access = [c \in Callers |-> NotRun]
    /\ call = [c \in Callers |-> Idle]
    /\ response = [c \in Callers |-> NoResponse]
    /\ netlog = [c \in Callers |-> <<>>]
    /\ applied = [c \in Callers |-> 0]
    /\ racing = FALSE
    /\ fileStatuses = [c \in Callers |-> 0]
    /\ obs = [c \in Callers |-> NoObs]

ClientSpec == ClientInit /\ [][ClientNext]_vars

\* the tab that edits, and the session that posts the settings form
Editor == 1
Admin == 2

TabNext ==
    \/ \E c \in Callers, form \in DefaultLogins : Login(c, form)
    \/ \E form \in SettingsForms : Settings(Admin, form)
    \/ \E listed \in 0..MaxSha : Reload(Editor, listed)
    \/ \E m \in {"POST", "DELETE"}, sha \in {0, fileStatuses[Editor]} :
          Request(Editor, m, sha)
    \/ \E ev \in TabHealthEvents : PreflightApi(Editor, ev)
    \/ \E ev \in TabAccessEvents : PreflightRepo(Editor, ev)
    \/ \E processed \in BOOLEAN, fault \in StoreFaults \cup {NoEvent},
          stale \in StaleStatuses : Attempt(Editor, processed, fault, stale)
    \/ \E listed \in 0..MaxSha : Complete(Editor, listed)
    \/ \E ev \in TabHealthEvents : GithubStatus(Editor, ev)
    \/ \E ev \in TabAccessEvents : GithubRepoAccess(Editor, ev)
    \/ \E ev \in ReadEvents : ListFiles(Editor, ev)
    \/ \E ev \in ReadEvents : GetFile(Editor, ev)
    \/ AiStyles(Editor)
    \/ \E provider \in Providers, ev \in AiEvents : AiRewrite(Editor, provider, ev)

TabSpec == Init /\ [][TabNext]_vars

\* one tab of a configured application lists a repository whose top
\* directory is any of Listings
ListInit ==
    /\ x = XIdle
    /\ dir \in Listings
    /\ StoreInit
    /\ config = [GITHUB_USERNAME |-> "me", GITHUB_REPO |-> "blog",
                 GITHUB_BRANCH |-> "main", GITHUB_TOKEN |-> "tok",
                 SECRET_KEY |-> "k1", ADMIN_USERNAME |-> "admin",
                 ADMIN_PASSWORD |-> "admin", OPENAI_API_KEY |-> "",
                 GEMINI_API_KEY |-> ""]

ListNext ==
    \/ \E form \in DefaultLogins : Login(Editor, form)
    \/ \E ev \in ReadEvents : ListFiles(Editor, ev)
    \/ \E listed \in {0} : Complete(Editor, listed)

ListSpec == ListInit /\ [][ListNext]_vars

\* two sessions post the login form; the Admin session also posts the
\* settings form
AuthInit ==
    /\ x = XIdle
    /\ dir = DefaultDir
    /\ StoreInit
    /\ remote.sha = 1

AuthNext ==
    \/ \E c \in Callers, form \in LoginForms : Login(c, form)
    \/ \E form \in AuthSettingsForms : Settings(Admin, form)

AuthSpec == AuthInit /\ [][AuthNext]_vars

----------------------------------------------------------------------------
(* Claims about manage_file, checked under Spec *)

\* the positions of netlog[c] that hold a PUT or a DELETE
Mutations(c) == {i \in 1..Len(netlog[c]) : netlog[c][i] \in {"PUT", "DELETE"}}

Returned(c) == pc[c] = "returned"

\* C1: a PUT or DELETE is sent to GitHub only after, in the same call, the
\* health probe answered ok with remaining >= 10 and the repo-access probe
\* answered ok with write permission, both sent before it; and a call whose
\* pre-flight check failed returns that failure and has sent no PUT or DELETE.
C1_PreflightBeforeMutation ==
    \A c \in Callers :
        /\ Mutations(c) # {} =>
              /\ api_status[c].status = "ok" /\ api_status[c].remaining >= 10
              /\ repo_access[c].status = "ok" /\ repo_access[c].write
              /\ Len(netlog[c]) >= 3
              /\ netlog[c][1] = "GET /rate_limit" /\ netlog[c][2] = "GET /repos"
              /\ \A i \in Mutations(c) : i > 2
        /\ (Returned(c) /\ api_status[c].status = "error") =>
              Mutations(c) = {} /\ response[c] = Reply(503, "GitHub API unavailable")
        /\ (Returned(c) /\ api_status[c].status = "ok" /\ api_status[c].remaining < 10) =>
              Mutations(c) = {} /\ response[c] = Reply(429, "Rate limit nearly exceeded")
        /\ (Returned(c) /\ repo_access[c].status = "error") =>
              Mutations(c) = {} /\ response[c] = Reply(403, "Repository access failed")
        /\ (Returned(c) /\ repo_access[c].status = "ok" /\ ~repo_access[c].write) =>
              Mutations(c) = {} /\ response[c] = Reply(403, "Insufficient permissions")

\* a call that passed pre-flight, sent its PUT and returned GitHub's success
C1_Witness ==
    \E c \in Callers :
        Returned(c) /\ netlog[c] = <<"GET /rate_limit", "GET /repos", "PUT">>
        /\ response[c].code = 200

\* C2 (as claimed): a DELETE without a sha, from an authenticated tab with the
\* repository and token configured, returns 'SHA required' and has sent no
\* request of any kind to GitHub.
C2_Original ==
    \A c \in Callers :
        (Returned(c) /\ session[c] /\ request[c] = [method |-> "DELETE", sha |-> 0]
         /\ details[c].user # "" /\ details[c].repo # "" /\ headers[c] # NoHeaders) =>
            /\ response[c].error = "SHA required"
            /\ netlog[c] = <<>>

\* C3 (as claimed, for the races in which each caller's outcome is GitHub's own
\* answer to its PUT, and taking any 409/422 answer for the conflict failure):
\* when two POSTs carrying the same valid sha race and both have returned,
\* exactly one got a success and the other a conflict.
C3_Original ==
    (racing /\ \A c \in Callers :
                  Returned(c) /\ response[c].code \in {200, 201} \cup StaleStatuses) =>
        \E w \in Callers :
            /\ ResponseOk(response[w])
            /\ response[Other(w)].code \in StaleStatuses

\* C4 (as claimed): a POST with a stale sha (GitHub applied nothing of this
\* call) that GitHub rejected with 409 returns a failure of kind 'conflict'.
C4_Original ==
    \A c \in Callers :
        (Returned(c) /\ request[c].method = "POST" /\ request[c].sha # 0
         /\ applied[c] = 0 /\ response[c].code = 409) =>
            response[c].error = "conflict"

----------------------------------------------------------------------------
(* Claims about github_api_request_with_retry, checked under ClientSpec *)

\* the last time.sleep() of the call
LastSleep == x.sleeps[Len(x.sleeps)]

\* the last event is a 403 whose X-RateLimit-Remaining reads 0
LastRateLimited == x.last.status = 403 /\ x.last.remaining = <<"0">>

\* max(resetEpoch - now, 60) for the last event, a missing reset read as 0
ExpectedWait ==
    LET reset == IF x.last.reset = NoHeader THEN 0 ELSE x.last.reset[1]
    IN  IF reset - x.now >= 60 THEN reset - x.now ELSE 60

\* the last event is a transient failure
LastTransient ==
    \/ x.last.kind \in {"timeout", "connection_error"}
    \/ x.last.kind = "response" /\ x.last.status \in {500, 502, 503, 504}
    \/ LastRateLimited

\* C5: k transient failures, k below the retry budget, followed by a 200 or
\* 201 make the call return a success after exactly k+1 requests; and a
\* transient failure ends the call only as the last request of the budget.
C5_SuccessAfterTransients ==
    /\ (x.k.returned /\ x.last.kind = "response" /\ x.last.status \in {200, 201}
        /\ Len(x.retried) < x.k.max_retries) =>
           /\ x.k.result.success
           /\ x.k.result.status_code = x.last.status
           /\ x.k.nreq = Len(x.retried) + 1
    /\ (x.k.returned /\ LastTransient) => x.k.nreq = x.k.max_retries

\* two transient failures, then a success on the third request
C5_Witness ==
    /\ x.k.returned /\ x.k.result.success
    /\ Len(x.retried) = 2 /\ x.k.nreq = 3
    /\ x.retried[1] = "timeout" /\ x.retried[2] = "rate_limited"

\* C6: the call never sends more than max_retries requests; while it runs it
\* has sent fewer than max_retries (each iteration sends one more or returns,
\* so it returns after at most max_retries requests), and once returned it
\* holds an outcome.
C6_AttemptsBounded ==
    /\ x.k.nreq <= x.k.max_retries
    /\ x.k.attempt <= x.k.nreq
    /\ Len(x.sleeps) <= x.k.nreq
    /\ x.k.running => x.k.nreq < x.k.max_retries /\ x.k.attempt = x.k.nreq
    /\ x.k.returned => ~x.k.running /\ (x.k.result.success \/ x.k.result.error # "")

\* a call that used its whole budget of three requests
C6_Witness ==
    x.k.returned /\ x.k.max_retries = 3 /\ x.k.nreq = 3 /\ ~x.k.result.success

\* C7: for a rate-limited response the wait (slept, or returned as retry_after)
\* is max(resetEpoch - now, 60), never below 60, for a reset in the future, in
\* the past or missing.
C7_WaitFloor ==
    LastRateLimited =>
        LET wait == IF x.k.returned THEN x.k.result.retry_after ELSE LastSleep
        IN  wait = ExpectedWait /\ wait >= 60

\* reset = now + 30 waits 60
C7_Witness ==
    /\ LastRateLimited /\ x.last.reset = <<1030>> /\ x.now = 1000
    /\ ~x.k.returned /\ LastSleep = 60

\* C8: after a rate-limited response the client, if attempts remain, sleeps
\* exactly the computed wait and goes on to another attempt; on the last
\* attempt it returns rate_limit_exceeded with retry_after equal to that wait
\* and does not sleep.
C8_RateLimitRetryOrFail ==
    LastRateLimited =>
        IF x.k.nreq < x.k.max_retries
        THEN /\ x.k.running
             /\ Len(x.sleeps) = x.k.nreq
             /\ LastSleep = ExpectedWait
        ELSE /\ x.k.returned
             /\ x.k.result = Failure("rate_limit_exceeded", Absent, ExpectedWait)
             /\ Len(x.sleeps) = x.k.nreq - 1

\* rate-limited on the last of three attempts, after two sleeps
C8_Witness ==
    /\ LastRateLimited /\ x.k.returned /\ x.k.nreq = 3
    /\ x.k.result.error = "rate_limit_exceeded" /\ x.k.result.retry_after = 150
    /\ Len(x.sleeps) = 2

\* the call returned api_error 403 for the last event without sleeping after it
ForbiddenReturned ==
    /\ x.k.returned
    /\ x.k.result = Failure("api_error", 403, Absent)
    /\ Len(x.sleeps) = x.k.nreq - 1

\* C9 (as claimed): a 403 whose X-RateLimit-Remaining does not read 0, be it
\* another value or not present, is returned as api_error 403 after that
\* attempt, with no sleep and no retry.
C9_Original ==
    (x.last.status = 403 /\ x.last.remaining # <<"0">>) => ForbiddenReturned

\* C9 (amended): a response is rate-limited only when its status is 403 and
\* X-RateLimit-Remaining reads 0 or is not present; a 403 whose header is
\* present and does not read 0 is returned as api_error 403 after that attempt,
\* with no sleep and no retry; a 403 without the header is handled as
\* rate-limited.
C9_Amended ==
    /\ (x.last.status = 403 /\ x.last.remaining \notin {<<"0">>, NoHeader}) =>
           ForbiddenReturned
    /\ (x.last.status = 403 /\ x.last.remaining = NoHeader) =>
           IF x.k.nreq < x.k.max_retries
           THEN x.k.running /\ Len(x.sleeps) = x.k.nreq /\ LastSleep = ExpectedWait
           ELSE x.k.result = Failure("rate_limit_exceeded", Absent, ExpectedWait)
    /\ (x.k.returned /\ x.k.result.error = "rate_limit_exceeded") =>
           x.last.status = 403 /\ x.last.remaining \in {<<"0">>, NoHeader}

\* a 403 with X-RateLimit-Remaining: 5 on the first attempt of three
C9_Witness ==
    /\ x.last.status = 403 /\ x.last.remaining = <<"5">>
    /\ x.k.max_retries = 3 /\ x.k.nreq = 1 /\ ForbiddenReturned

\* C10: after a timeout or a connection error on the zero-based attempt a the
\* client, if attempts remain, sleeps backoff_factor^a and retries; on the last
\* attempt it returns Failure(timeout) for a timeout and
\* Failure(connection_error) for a connection error.
C10_TransportBackoff ==
    x.last.kind \in {"timeout", "connection_error"} =>
        IF x.k.nreq < x.k.max_retries
        THEN /\ x.k.running
             /\ Len(x.sleeps) = x.k.nreq
             /\ LastSleep = Pow(x.k.backoff_factor, x.k.nreq - 1)
        ELSE /\ x.k.returned
             /\ x.k.result = Failure(x.last.kind, Absent, Absent)
             /\ Len(x.sleeps) = x.k.nreq - 1

\* factor 2: slept 1 and 2, then the third attempt timed out
C10_Witness ==
    /\ x.k.backoff_factor = 2 /\ x.sleeps = <<1, 2>>
    /\ x.retried = <<"connection_error", "timeout">>
    /\ x.last.kind = "timeout" /\ x.k.returned /\ x.k.result.error = "timeout"

\* the last event is a response with one of the server-error statuses
LastServerError ==
    x.last.kind = "response" /\ x.last.status \in {500, 502, 503, 504}

\* C11: after a response with status 500, 502, 503 or 504 on the zero-based
\* attempt a the client, if attempts remain, sleeps backoff_factor^a and goes
\* on to another attempt; on the last attempt it returns Failure(api_error)
\* carrying that status code, without sleeping: never a success, never no
\* outcome.
C11_ServerErrorRetryOrFail ==
    LastServerError =>
        IF x.k.nreq < x.k.max_retries
        THEN /\ x.k.running /\ ~x.k.returned
             /\ Len(x.sleeps) = x.k.nreq
             /\ LastSleep = Pow(x.k.backoff_factor, x.k.nreq - 1)
        ELSE /\ x.k.returned /\ ~x.k.running
             /\ ~x.k.result.success
             /\ x.k.result = Failure("api_error", x.last.status, Absent)
             /\ Len(x.sleeps) = x.k.nreq - 1

\* factor 3: 502 and 500 slept 1 and 3, then the third attempt met 504
C11_Witness ==
    /\ x.k.backoff_factor = 3 /\ x.sleeps = <<1, 3>>
    /\ x.retried = <<"server_error", "server_error">>
    /\ x.last.status = 504 /\ x.k.returned
    /\ x.k.result = Failure("api_error", 504, Absent)

\* the last event is a response the client does not retry and does not take
\* for a success: any status but 200, 201, 500, 502, 503, 504 and a
\* rate-limited 403 (X-RateLimit-Remaining reads 0, or is not present and so
\* read as 0)
LastNonTransient ==
    /\ x.last.kind = "response"
    /\ x.last.status \notin {200, 201, 500, 502, 503, 504}
    /\ ~(x.last.status = 403 /\ x.last.remaining \in {<<"0">>, NoHeader})

\* C12: a non-transient response ends the call at once, whatever budget
\* remains: the call has returned api_error with that status, it made no
\* attempt after that response (every earlier request was retried) and it
\* did not sleep after it.
C12_NonTransientEndsCall ==
    LastNonTransient =>
        /\ x.k.returned /\ ~x.k.running
        /\ x.k.result = Failure("api_error", x.last.status, Absent)
        /\ x.k.nreq = Len(x.retried) + 1
        /\ Len(x.sleeps) = x.k.nreq - 1

\* a 404 on the first attempt of three: one request, no sleep
C12_Witness ==
    /\ x.last.kind = "response" /\ x.last.status = 404
    /\ x.k.max_retries = 3 /\ x.k.nreq = 1 /\ x.sleeps = <<>>
    /\ x.k.returned /\ x.k.result = Failure("api_error", 404, Absent)

\* C13: a returned call is a success if and only if the last response it
\* received had status 200 or 201, and the success carries that response's
\* status code and body.
C13_SuccessIffOk ==
    x.k.returned =>
        /\ x.k.result.success <=>
               (x.last.kind = "response" /\ x.last.status \in {200, 201})
        /\ x.k.result.success =>
               /\ x.k.result.status_code = x.last.status
               /\ x.k.result.sha = x.last.sha
               /\ x.k.result.error = ""

\* a 201 whose body holds sha 2, after one retried failure
C13_Witness ==
    /\ x.k.returned /\ x.k.result.success /\ x.k.nreq = 2
    /\ x.last.status = 201 /\ x.last.sha = 2
    /\ x.k.result.status_code = 201 /\ x.k.result.sha = 2

\* the failure kinds of spec.md section 7
FailureKinds ==
    {"config_missing", "repo_access_denied", "rate_limit_exceeded", "timeout",
     "connection_error", "not_found", "conflict", "checksum_required",
     "api_error", "unexpected_error"}

\* C14 (as claimed): every failure the call returns, for every max_retries,
\* has a kind of the closed set.
C14_Original ==
    (x.k.returned /\ ~x.k.result.success) => x.k.result.error \in FailureKinds

\* C14 (amended): a call with max_retries >= 1 returns only failures of the
\* kinds rate_limit_exceeded, timeout, connection_error, api_error and
\* unexpected_error, all of the closed set; a call with max_retries = 0
\* returns, without a request, a failure of the kind max_retries_exceeded,
\* which is not of the closed set, and that kind is returned in no other case.
C14_Amended ==
    (x.k.returned /\ ~x.k.result.success) =>
        /\ x.k.max_retries >= 1 =>
               /\ x.k.result.error \in {"rate_limit_exceeded", "timeout",
                                        "connection_error", "api_error",
                                        "unexpected_error"}
               /\ x.k.result.error \in FailureKinds
        /\ x.k.max_retries = 0 =>
               x.k.result.error = "max_retries_exceeded" /\ x.k.nreq = 0
        /\ x.k.result.error = "max_retries_exceeded" => x.k.max_retries = 0

\* max_retries = 0: the call returned at once
C14_Witness ==
    /\ x.k.returned /\ x.k.max_retries = 0 /\ x.k.nreq = 0
    /\ x.k.result.error = "max_retries_exceeded"

----------------------------------------------------------------------------
(* Claims about manage_file and the probes, checked under TabSpec *)

\* tab c's request is a POST or DELETE /api/file
Mutating(c) == request[c].method \in {"POST", "DELETE"}

\* how often netlog[c] holds the request r
Sent(c, r) == Cardinality({i \in 1..Len(netlog[c]) : netlog[c][i] = r})

\* the repository metadata GET of this call returned 200 with push true
RepoOk(c) == obs[c].repo.kind = "ok" /\ obs[c].repo.push = <<TRUE>>

\* C15: with no GitHub token configured, a POST or DELETE /api/file of a
\* logged-in tab returns a 400 that names the missing configuration and has
\* sent no request to GitHub; the status probe and the repo-access probe
\* return status 'error' and have sent no request either.
C15_NoTokenNoRequest ==
    \A c \in Callers :
        (Returned(c) /\ session[c] /\ config.GITHUB_TOKEN = ""
         /\ request[c].method \notin ReadMethods) =>
            /\ netlog[c] = <<>>
            /\ Mutating(c) =>
                   response[c] \in {Reply(400, "GitHub token missing"),
                                    Reply(400, "GitHub configuration incomplete")}
            /\ request[c].method = "GET status" => api_status[c].status = "error"
            /\ request[c].method = "GET repo-access" =>
                   repo_access[c].status = "error"

\* a save with the repository configured and no token
C15_Witness ==
    /\ Returned(Editor) /\ session[Editor] /\ request[Editor].method = "POST"
    /\ config.GITHUB_TOKEN = "" /\ config.GITHUB_USERNAME = "me"
    /\ config.GITHUB_REPO = "blog"
    /\ response[Editor] = Reply(400, "GitHub token missing")
    /\ netlog[Editor] = <<>>

\* C16: when GET /rate_limit answered 200 with remaining < 10, whatever the
\* limit, the call returns 429 'Rate limit nearly exceeded' having sent that
\* one request and no PUT or DELETE; with remaining >= 10 the call goes on
\* past this check and never returns that failure.
C16_LowQuotaBlocks ==
    \A c \in Callers :
        (Mutating(c) /\ obs[c].api.kind = "ok") =>
            IF obs[c].api.remaining < 10
            THEN /\ Returned(c)
                 /\ response[c] = Reply(429, "Rate limit nearly exceeded")
                 /\ netlog[c] = <<"GET /rate_limit">>
                 /\ Mutations(c) = {}
            ELSE /\ pc[c] \in {"preflight_repo", "request", "returned"}
                 /\ response[c].error \notin {"Rate limit nearly exceeded",
                                              "GitHub API unavailable"}

\* remaining = 5 of limit = 5000
C16_Witness ==
    /\ Mutating(Editor) /\ Returned(Editor)
    /\ obs[Editor].api = [kind |-> "ok", remaining |-> 5, limit |-> 5000]
    /\ response[Editor].code = 429 /\ netlog[Editor] = <<"GET /rate_limit">>

\* C17: a call is past the repo-access check (it entered the client, sent a
\* PUT or DELETE, or reached the sha check) only if GET /repos/{user}/{repo}
\* returned 200 with permissions.push true; in every other case (another
\* status, an exception, push false or missing, the probe not sent) the call
\* that came to this check returns a 403 and has sent no PUT or DELETE.
C17_WriteNeedsPush ==
    \A c \in Callers :
        Mutating(c) =>
            /\ (pc[c] = "request" \/ Mutations(c) # {}
                \/ response[c].error = "SHA required") => RepoOk(c)
            /\ (obs[c].api.kind = "ok" /\ obs[c].api.remaining >= 10
                /\ pc[c] # "preflight_repo" /\ ~RepoOk(c)) =>
                   /\ Returned(c)
                   /\ response[c] \in {Reply(403, "Repository access failed"),
                                       Reply(403, "Insufficient permissions")}
                   /\ Mutations(c) = {}

\* the repository answered 200 without permissions.push: 403, no PUT
C17_Witness ==
    /\ Mutating(Editor) /\ Returned(Editor)
    /\ obs[Editor].repo = [kind |-> "ok", push |-> <<>>]
    /\ response[Editor] = Reply(403, "Insufficient permissions")
    /\ netlog[Editor] = <<"GET /rate_limit", "GET /repos">>

\* C18: the warning is printed exactly when the health probe answered 200 with
\* remaining >= 10 and less than a tenth of the limit remaining; a call that
\* printed it goes on to the repo-access check, never returns a failure of the
\* health check, and, the repo-access check passed, goes on to the write.
C18_WarningNonFatal ==
    \A c \in Callers :
        Mutating(c) =>
            /\ obs[c].warned <=>
                   /\ obs[c].api.kind = "ok"
                   /\ obs[c].api.remaining >= 10
                   /\ obs[c].api.remaining * 10 < obs[c].api.limit
            /\ obs[c].warned =>
                   /\ pc[c] \in {"preflight_repo", "request", "returned"}
                   /\ response[c].error \notin {"Rate limit nearly exceeded",
                                                "GitHub API unavailable"}
                   /\ (pc[c] # "preflight_repo" /\ RepoOk(c)
                       /\ ~ShaMissing(request[c].method, request[c].sha)) =>
                          pc[c] = "request" \/ Mutations(c) # {}

\* remaining = 10 of limit = 5000 (99.8% used): warned, and the save succeeded
C18_Witness ==
    /\ obs[Editor].warned /\ Returned(Editor)
    /\ obs[Editor].api = [kind |-> "ok", remaining |-> 10, limit |-> 5000]
    /\ netlog[Editor] = <<"GET /rate_limit", "GET /repos", "PUT">>
    /\ ResponseOk(response[Editor])

\* C19 (as claimed): a probe of a POST or DELETE /api/file that met a timeout,
\* a connection error, a 5xx or a rate-limited response, and whose call then
\* returned, was sent as often as the retry budget allows.
C19_Original ==
    \A c \in Callers :
        (Mutating(c) /\ Returned(c)) =>
            /\ obs[c].api.kind \in TransientKinds =>
                   Sent(c, "GET /rate_limit") = DefaultMaxRetries
            /\ obs[c].repo.kind \in TransientKinds =>
                   Sent(c, "GET /repos") = DefaultMaxRetries

\* C20 (as claimed, for its main consequence): in one POST or DELETE
\* /api/file, the PUT or DELETE goes to the repository of the call's
\* repo-access probe, the one whose write permission pre-flight verified.
C20_Original ==
    \A c \in Callers :
        Mutating(c) =>
            \A i \in Mutations(c) :
                LET probe == obs[c].targets[2]
                    write == obs[c].targets[i]
                IN  /\ netlog[c][2] = "GET /repos"
                    /\ write.user = probe.user /\ write.repo = probe.repo

\* the per-worker request deadline of the deployment (gunicorn.conf.py line 17)
Deadline == 120

RECURSIVE SumSeq(_)
SumSeq(q) == IF q = <<>> THEN 0 ELSE q[1] + SumSeq(Tail(q))

\* C23 (as claimed): once the time slept by one call of the client reaches the
\* deadline, the call has returned a failure of kind timeout, whatever is left
\* of its retry budget.
C23_Original ==
    SumSeq(x.sleeps) >= Deadline =>
        /\ x.k.returned
        /\ ~x.k.result.success /\ x.k.result.error = "timeout"

\* the classes retried with backoff_factor ** attempt
BackoffClasses == {"timeout", "connection_error", "server_error"}

\* C29: one call sleeps once after each request but the last: with a retry
\* budget of at least 1 it sleeps at most max_retries - 1 times (with a budget
\* of 0 it sends nothing and never sleeps), a returned call has slept one time
\* fewer than it sent requests, and the i-th sleep, which follows the attempt
\* of zero-based index i - 1, lasts backoff_factor^(i-1) when that attempt met
\* a timeout, a connection error or a 5xx, whatever the earlier attempts were
\* retried for, and at least 60 seconds when it was rate-limited.
C29_SleepSequence ==
    /\ Len(x.sleeps) = Len(x.retried)
    /\ x.k.max_retries >= 1 => Len(x.sleeps) <= x.k.max_retries - 1
    /\ x.k.max_retries = 0 => x.sleeps = <<>>
    /\ x.k.running => Len(x.sleeps) = x.k.nreq
    /\ (x.k.returned /\ x.k.nreq >= 1) => Len(x.sleeps) = x.k.nreq - 1
    /\ \A i \in 1..Len(x.sleeps) :
           /\ x.retried[i] \in BackoffClasses =>
                  x.sleeps[i] = Pow(x.k.backoff_factor, i - 1)
           /\ x.retried[i] = "rate_limited" => x.sleeps[i] >= MinWait

\* a rate-limit wait of 150 s, then a timeout backed off by 3^1, then the
\* third and last request of the budget, after which nothing is slept
C29_Witness ==
    /\ x.k.returned /\ x.k.max_retries = 3 /\ x.k.nreq = 3
    /\ x.k.backoff_factor = 3
    /\ x.retried = <<"rate_limited", "timeout">>
    /\ x.sleeps = <<150, 3>>

\* C30 (as claimed): a POST or DELETE /api/file that returned a failure to its
\* caller did not change the remote file.
C30_Original ==
    \A c \in Callers :
        (Mutating(c) /\ Returned(c) /\ ~ResponseOk(response[c])) =>
            applied[c] = 0

\* the requests one POST or DELETE /api/file can send: the two probes and the
\* write itself; there is no GET of the path that would look for the file
WriteRequests == {"GET /rate_limit", "GET /repos", "PUT", "DELETE"}

\* C22: the body of every PUT and DELETE carries exactly the sha the caller
\* supplied (none when none was supplied), on every retry; the handler sends
\* nothing that asks GitHub whether the file exists; and the remote file
\* changes only by a request whose caller's sha is the file's current one: a
\* PUT without sha only creates, a PUT with a sha only updates that version,
\* and a PUT built from a stale sha changes nothing.
C22_NoSilentOverwrite ==
    /\ [](\A c \in Callers :
            Mutating(c) =>
                /\ Len(obs[c].payload) = Cardinality(Mutations(c))
                /\ \A i \in 1..Len(obs[c].payload) :
                       obs[c].payload[i] = request[c].sha
                /\ \A i \in 1..Len(netlog[c]) : netlog[c][i] \in WriteRequests)
    /\ [][remote' # remote =>
              \E c \in Callers :
                  /\ applied'[c] = applied[c] + 1
                  /\ request[c].sha = remote.sha
                  /\ (request[c].method = "POST" /\ request[c].sha = 0) =>
                         (remote.sha = 0 /\ remote'.sha # 0)]_vars

\* tab 2 updated version 1 to version 2; tab 1's PUT built from version 1 was
\* then refused with 409 and left version 2 in place
C22_Witness ==
    /\ Returned(1) /\ request[1] = [method |-> "POST", sha |-> 1]
    /\ obs[1].payload = <<1>> /\ applied[1] = 0 /\ response[1].code = 409
    /\ request[2] = [method |-> "POST", sha |-> 1] /\ applied[2] = 1
    /\ remote.sha = 2

----------------------------------------------------------------------------
(* Claims about list_files, checked under ListSpec *)

\* the name ends in ".md"
IsMarkdownName(n) ==
    Len(n) >= 3 /\ n[Len(n) - 2] = "." /\ n[Len(n) - 1] = "m" /\ n[Len(n)] = "d"

\* name a comes before name b: they agree up to a position where a has ended
\* and b has not, or where a's character has the smaller code point
NameBefore(a, b) ==
    \E k \in 1..(Len(a) + 1) :
        /\ k <= Len(b)
        /\ \A i \in 1..(k - 1) : a[i] = b[i]
        /\ k <= Len(a) => Ord(a[k]) < Ord(b[k])

\* C25: a 200 answer of GET /api/files holds, for the directory listing
\* GitHub returned, one {name, path, sha} for each entry of type file whose
\* name ends in ".md", nothing else, in ascending order of name.
C25_ListExact ==
    \A c \in Callers :
        (Returned(c) /\ request[c].method = "GET files" /\ response[c].code = 200) =>
            LET body == Listing(dir, remote)
                files == response[c].files
                wanted == {i \in 1..Len(body) :
                              body[i].type = "file" /\ IsMarkdownName(body[i].name)}
                record(i) == [name |-> body[i].name, path |-> body[i].path,
                              sha |-> body[i].sha]
            IN  /\ Len(files) = Cardinality(wanted)
                /\ \A i \in wanted : \E k \in 1..Len(files) : files[k] = record(i)
                /\ \A k \in 1..Len(files) : \E i \in wanted : files[k] = record(i)
                /\ \A k \in 1..(Len(files) - 1) :
                       NameBefore(files[k].name, files[k + 1].name)

\* the directory [a.md, notes.txt, b.md] listed as [a.md, b.md]
C25_Witness ==
    /\ Returned(Editor) /\ request[Editor].method = "GET files"
    /\ remote.sha = 0
    /\ Len(dir) = 3
    /\ dir[1].name = <<"a", ".", "m", "d">>
    /\ dir[2].name = <<"n", "o", "t", "e", "s", ".", "t", "x", "t">>
    /\ dir[3].name = <<"b", ".", "m", "d">>
    /\ response[Editor].code = 200
    /\ Len(response[Editor].files) = 2
    /\ response[Editor].files[1] =
           [name |-> dir[1].name, path |-> dir[1].path, sha |-> dir[1].sha]
    /\ response[Editor].files[2] =
           [name |-> dir[3].name, path |-> dir[3].path, sha |-> dir[3].sha]

----------------------------------------------------------------------------
(* Claims about the routes and the configuration, checked under TabSpec *)

\* request i of tab c's current call went where the configuration points
\* now: its token, the repository of its URL unless it is GET /rate_limit,
\* and the branch it names unless it is a probe
UsesConfig(c, i) ==
    LET t == obs[c].targets[i]
        r == netlog[c][i]
    IN  /\ t.token = config.GITHUB_TOKEN
        /\ r # "GET /rate_limit" =>
               (t.user = config.GITHUB_USERNAME /\ t.repo = config.GITHUB_REPO)
        /\ r \notin {"GET /rate_limit", "GET /repos"} =>
               t.branch = config.GITHUB_BRANCH

\* C21: every request of a list, read, write, delete or probe call during
\* which the settings were not saved with other values goes to the owner,
\* repository and branch and carries the token that config.json holds, also
\* when these were changed by the settings form just before the call.
C21_ConfigPerCall ==
    \A c \in Callers :
        (session[c] /\ ~obs[c].changed) =>
            /\ Len(obs[c].targets) = Len(netlog[c])
            /\ \A i \in 1..Len(netlog[c]) : UsesConfig(c, i)

\* the settings form set another owner and token; the write that followed
\* sent its probes and its PUT there
C21_Witness ==
    /\ config.GITHUB_USERNAME = "you" /\ config.GITHUB_TOKEN = "tok2"
    /\ Returned(Editor) /\ ~obs[Editor].changed
    /\ netlog[Editor] = <<"GET /rate_limit", "GET /repos", "PUT">>
    /\ obs[Editor].targets[3] =
           [user |-> "you", repo |-> "blog", branch |-> "main", token |-> "tok2"]

\* C24 (as claimed): every request sent to GitHub carries a token.
C24_Original ==
    \A c \in Callers :
        \A i \in 1..Len(obs[c].targets) : obs[c].targets[i].token # ""

\* C26 (as claimed): a GET /api/files or GET /api/file/<path> of a logged-in
\* tab that fails returns one of the client's failure kinds, and the read of
\* the file returns not_found exactly when GitHub answered 404.
C26_Original ==
    \A c \in Callers :
        (Returned(c) /\ session[c] /\ request[c].method \in ReadMethods
         /\ response[c].code # 200) =>
            /\ response[c].error \in FailureKinds \cup {"not_found"}
            /\ request[c].method = "GET file" =>
                   (response[c].error = "not_found" <=> response[c].code = 404)

C28_StoreLeavesConfig ==
    [][config' # config =>
          /\ pc' = pc /\ netlog' = netlog /\ response' = response
          /\ remote' = remote
          /\ session[Admin]
          /\ config'.SECRET_KEY = config.SECRET_KEY]_vars

\* the form was saved while the tab's write was running; the write returned
\* and the saved owner and token are in place
C28_Witness ==
    /\ Returned(Editor) /\ obs[Editor].changed
    /\ netlog[Editor] = <<"GET /rate_limit", "GET /repos", "PUT">>
    /\ config.GITHUB_USERNAME = "you" /\ config.GITHUB_TOKEN = "tok2"

----------------------------------------------------------------------------
(* Claims about the order and the outcome of one call *)

\* C31 (as claimed): GitHub applies the PUT or DELETE of one POST or DELETE
\* /api/file at most once, however often the client retries it.
C31_Original == \A c \in Callers : applied[c] <= 1

\* C32: the requests of one POST or DELETE /api/file are, in this order, at
\* most one GET /rate_limit, at most one GET /repos/{owner}/{repo}, and then
\* only the PUTs or only the DELETEs; a call that reached the repo-access
\* check has sent the first, a call that reached the write has sent both;
\* and after a health probe that failed or read remaining < 10 the call has
\* returned with that probe as its only request.
C32_ProbeOrder ==
    \A c \in Callers :
        Mutating(c) =>
            LET n == Len(netlog[c])
                write == IF request[c].method = "POST" THEN "PUT" ELSE "DELETE"
            IN  /\ Sent(c, "GET /rate_limit") <= 1
                /\ Sent(c, "GET /repos") <= 1
                /\ n >= 1 => netlog[c][1] = "GET /rate_limit"
                /\ n >= 2 => netlog[c][2] = "GET /repos"
                /\ \A i \in 3..n : netlog[c][i] = write
                /\ pc[c] = "preflight_repo" => n = 1
                /\ pc[c] = "request" => n >= 2
                /\ (obs[c].api.kind \notin {"ok", "none"}
                    \/ (obs[c].api.kind = "ok" /\ obs[c].api.remaining < 10)) =>
                       (Returned(c) /\ n = 1)

\* both probes, then the PUT three times
C32_Witness ==
    /\ Returned(Editor) /\ request[Editor].method = "POST"
    /\ netlog[Editor] = <<"GET /rate_limit", "GET /repos", "PUT", "PUT", "PUT">>

\* C33: an exception other than requests' Timeout and ConnectionError ends
\* the call at once with unexpected_error, with no sleep after the request
\* that raised it; and a call with a retry budget whose method is none of
\* GET, PUT and DELETE returns unexpected_error having sent no request and
\* slept not at all.
C33_UnexpectedEndsCall ==
    /\ x.last.kind = "exception" =>
           /\ x.k.returned /\ ~x.k.result.success
           /\ x.k.result.error = "unexpected_error"
           /\ Len(x.sleeps) = x.k.nreq - 1
    /\ (x.k.returned /\ x.k.max_retries >= 1 /\ x.k.method = "PATCH") =>
           /\ ~x.k.result.success
           /\ x.k.result.error = "unexpected_error"
           /\ x.k.nreq = 0 /\ x.sleeps = <<>>

\* a PATCH with a budget of 3 returned without a request
C33_Witness ==
    /\ x.k.returned /\ x.k.method = "PATCH" /\ x.k.max_retries = 3
    /\ x.k.nreq = 0 /\ x.k.result.error = "unexpected_error"

\* C34: the status of the answer to a POST or DELETE /api/file whose client
\* call returned is 429 for rate_limit_exceeded, 504 for timeout, 503 for
\* connection_error, GitHub's own status, never a 2xx, for api_error, 500
\* for any other failure, and GitHub's 200 or 201 for a success; a failure's
\* body names the client's kind.
C34_StatusMapping ==
    \A c \in Callers :
        (Mutating(c) /\ Returned(c) /\ call[c].returned) =>
            LET r == call[c].result
                code == response[c].code
            IN  IF r.success
                THEN code = r.status_code /\ code \in {200, 201}
                ELSE /\ response[c].error = r.error
                     /\ r.error = "rate_limit_exceeded" => code = 429
                     /\ r.error = "timeout" => code = 504
                     /\ r.error = "connection_error" => code = 503
                     /\ r.error = "api_error" =>
                            (code = r.status_code /\ ~(code >= 200 /\ code < 300))
                     /\ r.error \notin {"rate_limit_exceeded", "timeout",
                                        "connection_error", "api_error"} =>
                            code = 500

\* a stale PUT: GitHub's 409 is the status of the answer
C34_Witness ==
    \E c \in Callers :
        /\ Returned(c) /\ request[c].method = "POST"
        /\ call[c].result.error = "api_error" /\ call[c].result.status_code = 409
        /\ response[c].code = 409

----------------------------------------------------------------------------
(* Claims about the editor script *)

\* C38 (as claimed): when the script has refreshed the file list and the list
\* holds the file, the sha the script keeps for the file, which is the sha
\* the next save sends (line 715), is the one of that list.
C38_Original ==
    [][\A c \in Callers :
          (/\ pc[c] = "returned" /\ pc'[c] = "idle"
           /\ request[c].method = "GET files" /\ response[c].code = 200
           /\ PathSha(response[c].files) # 0) =>
              fileStatuses'[c] = PathSha(response[c].files)]_vars

----------------------------------------------------------------------------
(* Claims about the session and the settings form *)

\* the routes under /api
ApiMethods == {"POST", "DELETE", "GET status", "GET repo-access"}
                  \cup ReadMethods \cup AiMethods

\* C35: a request to an API route (list, read, write, delete, GitHub status,
\* repo-access, AI styles, AI rewrite) from a session without is_admin is
\* answered 401 "Not authenticated" at once, sends nothing to GitHub and
\* changes neither the repository nor the configuration; and while no session
\* is authenticated no step at all changes the repository or the
\* configuration.
C35_Unauthenticated ==
    [][/\ \A c \in Callers :
            (~session[c] /\ pc[c] = "idle" /\ pc'[c] # "idle") =>
                /\ request'[c].method \in ApiMethods
                /\ pc'[c] = "returned"
                /\ response'[c] = Reply(401, "Not authenticated")
                /\ netlog'[c] = <<>>
                /\ obs'[c].targets = <<>>
                /\ applied'[c] = 0
                /\ remote' = remote
                /\ config' = config
       /\ (\A c \in Callers : ~session[c]) => (remote' = remote /\ config' = config)
      ]_vars

\* a save sent without a session, with a complete configuration in the
\* store, was answered 401 and reached neither probe
C35_Witness ==
    /\ ~session[Editor] /\ Returned(Editor)
    /\ request[Editor].method = "POST"
    /\ config.GITHUB_USERNAME = "me" /\ config.GITHUB_REPO = "blog"
    /\ config.GITHUB_TOKEN = "tok"
    /\ response[Editor].code = 401
    /\ netlog[Editor] = <<>>

\* C36: a session becomes is_admin only by a login POST of that session
\* whose username and password both equal the ADMIN_USERNAME and
\* ADMIN_PASSWORD stored when it is posted, so a session that is is_admin
\* has posted the login form; a login POST that does not match them leaves
\* every session and the configuration as they were.
C36_LoginOnly ==
    [][\A c \in Callers :
          /\ (session'[c] /\ ~session[c]) =>
                /\ posted'[c].login.username = config.ADMIN_USERNAME
                /\ posted'[c].login.password = config.ADMIN_PASSWORD
                /\ config' = config
          /\ session'[c] => posted'[c].login # NoLogin
          /\ (/\ posted'[c].login # posted[c].login
              /\ ~(/\ posted'[c].login.username = config.ADMIN_USERNAME
                   /\ posted'[c].login.password = config.ADMIN_PASSWORD)) =>
                (session' = session /\ config' = config)
      ]_vars

\* the credentials were changed on the settings page and the editor logged
\* in with the new ones
C36_Witness ==
    /\ config.ADMIN_USERNAME = "root" /\ config.ADMIN_PASSWORD = "pw2"
    /\ session[Editor]
    /\ posted[Editor].login = [username |-> "root", password |-> "pw2"]
    /\ posted[Admin].settings.admin_password = "pw2"

\* the stored secret after a save: the submitted one, the old one if the
\* field was left blank
Kept(old, new, field) == new = (IF field = "" THEN old ELSE field)

\* C37: a save of the settings form stores the submitted GitHub username,
\* repository, branch and admin username whatever they are, and for the
\* GitHub token, the OpenAI key, the Gemini key and the admin password the
\* submitted value if it is not blank and the stored one otherwise; nothing
\* else changes the configuration, so a stored secret, the token above all,
\* is never blank again.
C37_SettingsSave ==
    [][LET form == posted'[Admin].settings
       IN  /\ (config' # config \/ form # posted[Admin].settings) =>
                 /\ config'.GITHUB_USERNAME = form.github_username
                 /\ config'.GITHUB_REPO = form.github_repo
                 /\ config'.GITHUB_BRANCH = form.github_branch
                 /\ config'.ADMIN_USERNAME = form.admin_username
                 /\ Kept(config.GITHUB_TOKEN, config'.GITHUB_TOKEN, form.github_token)
                 /\ Kept(config.OPENAI_API_KEY, config'.OPENAI_API_KEY,
                         form.openai_api_key)
                 /\ Kept(config.GEMINI_API_KEY, config'.GEMINI_API_KEY,
                         form.gemini_api_key)
                 /\ Kept(config.ADMIN_PASSWORD, config'.ADMIN_PASSWORD,
                         form.admin_password)
                 /\ config'.SECRET_KEY = config.SECRET_KEY
           /\ \A k \in {"GITHUB_TOKEN", "OPENAI_API_KEY", "GEMINI_API_KEY",
                         "ADMIN_PASSWORD"} : config[k] # "" => config'[k] # ""
      ]_vars

\* the last save left the token and the OpenAI key blank and changed the
\* owner: the token of the start and the key of an earlier save are stored
C37_Witness ==
    /\ posted[Admin].settings.github_token = ""
    /\ posted[Admin].settings.openai_api_key = ""
    /\ posted[Admin].settings.github_username = "you"
    /\ config.GITHUB_TOKEN = "tok"
    /\ config.OPENAI_API_KEY = "sk"
    /\ config.GITHUB_USERNAME = "you"

====
